---- MODULE Spec2Model ----
(***************************************************************************)
(* Productivity_Tracker: the session timer (src/src/utils/time_tracker.py) *)
(* driven by its host (src/src/services/ui_service.py and                  *)
(* src/src/ui/main_window.py) over a discrete clock of whole seconds, and  *)
(* the session store (src/src/services/db_service.py) with its callers.    *)
(***************************************************************************)
EXTENDS Integers, Sequences, FiniteSets, TLC

(* ---------------------------------------------------------------------- *)
(* Bounds of the model                                                    *)
(* ---------------------------------------------------------------------- *)
\* the clock stops advancing at this instant
MaxTime == 1001
\* time.time() at construction; positive, as the epoch clock always is
Clock0 == 1
\* seconds the clock may advance between two calls
TickSteps == {200, 400}
\* task names the host passes to start(); "" is the default argument
TaskNames == {"", "A", "B"}

(* ---------------------------------------------------------------------- *)
(* TimerState, PauseReason, constructor defaults                          *)
(* ---------------------------------------------------------------------- *)
STOPPED == "STOPPED"
RUNNING == "RUNNING"
PAUSED == "PAUSED"
IDLE == "IDLE"
TimerState == {STOPPED, RUNNING, PAUSED, IDLE}

USER == "USER"
SYSTEM == "SYSTEM"
\* PauseReason.IDLE shares its spelling with TimerState.IDLE
PauseReason == {USER, IDLE, SYSTEM}
NoReason == "None"

idle_threshold == 300
paused_duration_alert == 600

\* Python's None for a float field: the empty tuple; a value v is <<v>>
None == <<>>
Some(v) == <<v>>
\* truthiness of an optional float: None and 0.0 are falsy
Truthy(x) == x # None /\ x[1] # 0

VARIABLES
    now,                \* time.time(), whole seconds
    state,              \* TimeTracker.state
    task_name,          \* TimeTracker.task_name
    start_time,         \* TimeTracker.start_time
    elapsed_time,       \* TimeTracker.elapsed_time (seconds)
    pause_time,         \* TimeTracker.pause_time
    last_pause_reason,  \* TimeTracker.last_pause_reason
    idle_start_time,    \* TimeTracker.idle_start_time
    total_idle_time,    \* TimeTracker.total_idle_time (seconds)
    op,                 \* the call made by the last step, with its arguments
    ret,                \* what that call returned
    events,             \* the callbacks that call invoked, in order
    running_total,      \* seconds spent RUNNING since the last successful start
    long_pause_alerted, \* on_long_pause was invoked during the pause in progress
    rows,               \* the committed rows of table session_tasks, in rowid order
    sqlite_sequence,    \* the largest id AUTOINCREMENT has handed out
    writer,             \* the caller whose connection holds the write lock, or 0
    ext_lock,           \* another program holds the database file locked
    add_call,           \* per caller: its add_session_task call in progress
    sheet,              \* SheetsService.sheet: the worksheet is open
    ledger,             \* the rows of the worksheet, in the order appended
    schema,             \* the database file exists and holds table session_tasks
    files,              \* the files left next to it: "-journal", "-wal"
    init_call,          \* DatabaseService.__init__: its progress and its attempts
    sync_call           \* per process: its sync pass in progress, call by call

tracker == <<state, task_name, start_time, elapsed_time, pause_time,
             last_pause_reason, idle_start_time, total_idle_time>>
vars == <<now, state, task_name, start_time, elapsed_time, pause_time,
          last_pause_reason, idle_start_time, total_idle_time,
          op, ret, events, running_total, long_pause_alerted,
          rows, sqlite_sequence, writer, ext_lock, add_call, sheet, ledger,
          schema, files, init_call, sync_call>>
\* the database file and the calls working on it
store_vars == <<rows, sqlite_sequence, writer, ext_lock, add_call>>
\* the timer and its clock
timer_vars == <<now, tracker, events, running_total, long_pause_alerted>>
\* the SheetsService and the spreadsheet behind it
remote == <<sheet, ledger>>
\* the construction of the DatabaseService
boot == <<schema, files, init_call>>

(* ---------------------------------------------------------------------- *)
(* Events: on_state_change(state), on_idle_detected(), on_long_pause(d)    *)
(* ---------------------------------------------------------------------- *)
StateChange(s) == [type |-> "state_change", state |-> s]
IdleDetected == [type |-> "idle_detected"]
LongPause(d) == [type |-> "long_pause", duration |-> d]

\* history: whether the pause in progress (if any) has raised on_long_pause
NoteAlert ==
    long_pause_alerted' =
        IF state' \notin {PAUSED, IDLE} \/ pause_time' # pause_time THEN FALSE
        ELSE long_pause_alerted \/ (\E i \in DOMAIN events' : events'[i].type = "long_pause")

\* a float quotient n / d, kept exact
Quot(n, d) == [num |-> n, den |-> d]
QuotEq(a, b) == a.num * b.den = b.num * a.den

(* ---------------------------------------------------------------------- *)
(* get_elapsed_time                                                       *)
(* ---------------------------------------------------------------------- *)
OpenIntervalCounted_Always(st, since) == Truthy(since)
OpenIntervalCounted(st, since) == st = RUNNING /\ Truthy(since)

elapsed_of(st, since, el, t) ==
    IF OpenIntervalCounted(st, since) THEN el + (t - since[1]) ELSE el

get_elapsed_time_of(st, since, el, t, in_hours) ==
    IF in_hours THEN Quot(elapsed_of(st, since, el, t), 3600)
    ELSE elapsed_of(st, since, el, t)

get_elapsed_time(in_hours) ==
    get_elapsed_time_of(state, start_time, elapsed_time, now, in_hours)

(* ---------------------------------------------------------------------- *)
(* DatabaseService: the table session_tasks and its callers               *)
(* ---------------------------------------------------------------------- *)
\* rows the table may hold before no further add is started
MaxRows == 2
\* the callers (threads or program instances) sharing the database file
Procs == {1, 2}
\* a date 'YYYY-MM-DD' as <<year, month, day>>
AddInputs ==
    {[date |-> <<2023, 11, 6>>, hours |-> Quot(3, 2), task |-> "Testing",
      description |-> "", tags |-> ""],
     [date |-> <<2023, 11, 7>>, hours |-> Quot(1, 4), task |-> "A",
      description |-> "d", tags |-> "t"]}
\* arguments a caller can pass that no session should be stored with: an
\* empty task name, a negative number of hours
InvalidInputs ==
    {[date |-> <<2023, 11, 6>>, hours |-> Quot(1, 4), task |-> "",
      description |-> "", tags |-> ""],
     [date |-> <<2023, 11, 7>>, hours |-> Quot(0 - 1, 2), task |-> "B",
      description |-> "", tags |-> ""]}
NoInput == [date |-> <<>>, hours |-> Quot(0, 1), task |-> "",
            description |-> "", tags |-> ""]

\* retries = 5
AddRetries_OneMore == 5 + 1
AddRetries == 5

\* a DatabaseService not constructed yet, and one whose constructor got
\* through on its first attempt
NoInit == [pc |-> "none", retry_count |-> 0, attempts |-> 0]
Constructed == [pc |-> "done", retry_count |-> 0, attempts |-> 1]

\* a process that is not inside sync_to_sheets
NoPass == [pc |-> "idle", batch |-> <<>>, i |-> 0, success_count |-> 0,
           calls |-> <<>>, result |-> "none", faults |-> 0]

\* a caller that is not inside add_session_task
NoCall == [pc |-> "idle", retries |-> 0, attempts |-> 0, inserted |-> 0,
           args |-> NoInput, lastrowid |-> 0, result |-> 0]

(* ---------------------------------------------------------------------- *)
(* Init: TimeTracker.__init__ with the defaults, as UIService builds it,   *)
(* the empty table DatabaseService.__init__ creates on a first run, and    *)
(* SheetsService.__init__ before any authentication                       *)
(* ---------------------------------------------------------------------- *)
Init ==
    /\ now = Clock0
    /\ state = STOPPED
    /\ task_name = ""
    /\ start_time = None
    /\ elapsed_time = 0
    /\ pause_time = None
    /\ last_pause_reason = NoReason
    /\ idle_start_time = None
    /\ total_idle_time = 0
    /\ op = [name |-> "init"]
    /\ ret = FALSE
    /\ events = <<>>
    /\ running_total = 0
    /\ long_pause_alerted = FALSE
    /\ rows = <<>>
    /\ sqlite_sequence = 0
    /\ writer = 0
    /\ ext_lock = FALSE
    /\ add_call = [p \in Procs |-> NoCall]
    /\ sheet = FALSE
    /\ ledger = <<>>
    /\ schema = TRUE
    /\ files = {}
    /\ init_call = Constructed
    /\ sync_call = [p \in Procs |-> NoPass]

\* the clock advances by d seconds; the tracker is untouched
Advance(d) ==
    /\ now' = now + d
    /\ running_total' = IF state = RUNNING THEN running_total + d ELSE running_total
    /\ op' = [name |-> "tick"]
    /\ ret' = FALSE
    /\ events' = <<>>
    /\ UNCHANGED tracker
    /\ NoteAlert
    /\ UNCHANGED <<store_vars, remote, boot, sync_call>>

Tick ==
    \E d \in TickSteps :
        /\ now + d <= MaxTime
        /\ Advance(d)

(* ---------------------------------------------------------------------- *)
(* start                                                                  *)
(* ---------------------------------------------------------------------- *)
StartAllowed_OrIdle(st) == st \in {STOPPED, IDLE}
StartAllowed_NotRunning(st) == st # RUNNING
StartAllowed(st) == st = STOPPED

start(name) ==
    /\ op' = [name |-> "start", task_name |-> name]
    /\ task_name' = IF name # "" THEN name ELSE task_name
    /\ IF StartAllowed(state)
       THEN /\ start_time' = Some(now)
            /\ elapsed_time' = 0
            /\ state' = RUNNING
            /\ events' = <<StateChange(RUNNING)>>
            /\ ret' = TRUE
            /\ running_total' = 0
       ELSE /\ events' = <<>>
            /\ ret' = FALSE
            /\ UNCHANGED <<start_time, elapsed_time, state, running_total>>
    /\ UNCHANGED <<now, pause_time, last_pause_reason, idle_start_time, total_idle_time>>
    /\ NoteAlert
    /\ UNCHANGED <<store_vars, remote, boot, sync_call>>

(* ---------------------------------------------------------------------- *)
(* stop                                                                   *)
(* ---------------------------------------------------------------------- *)
\* elapsed_time += (time.time() - start_time)
Fold(el, t, since) == el + (t - since[1])

StopReturn_Seconds(el) == Quot(el, 1)
StopReturn(el) == get_elapsed_time_of(STOPPED, start_time, el, now, TRUE)

stop ==
    /\ op' = [name |-> "stop"]
    /\ IF state # STOPPED
       THEN /\ elapsed_time' = IF state = RUNNING
                               THEN Fold(elapsed_time, now, start_time)
                               ELSE elapsed_time
            /\ state' = STOPPED
            /\ ret' = StopReturn(elapsed_time')
            /\ events' = <<StateChange(STOPPED)>>
       ELSE /\ ret' = Quot(0, 1)
            /\ events' = <<>>
            /\ UNCHANGED <<elapsed_time, state>>
    /\ UNCHANGED <<now, task_name, start_time, pause_time, last_pause_reason,
                   idle_start_time, total_idle_time, running_total>>
    /\ NoteAlert
    /\ UNCHANGED <<store_vars, remote, boot, sync_call>>

(* ---------------------------------------------------------------------- *)
(* pause                                                                  *)
(* ---------------------------------------------------------------------- *)
PauseAllowed_Any(st) == st \in {RUNNING, PAUSED}
PauseAllowed(st) == st = RUNNING

PauseTarget_Paused(reason) == PAUSED
PauseTarget(reason) == IF reason = IDLE THEN IDLE ELSE PAUSED

PauseEvents_NoStateChange(reason) ==
    IF reason = IDLE THEN <<IdleDetected>> ELSE <<>>
PauseEvents_IdleAlways(reason) ==
    <<StateChange(PauseTarget(reason)), IdleDetected>>
\* the callbacks of a successful pause, in the order pause() makes them
PauseEvents(reason) ==
    <<StateChange(PauseTarget(reason))>>
        \o (IF reason = IDLE THEN <<IdleDetected>> ELSE <<>>)

\* if reason == PauseReason.IDLE: self.idle_start_time = self.pause_time
IdleStart_Kept(reason, pt, ist) == ist
IdleStart(reason, pt, ist) == IF reason = IDLE THEN pt ELSE ist

\* the body of pause() under state == RUNNING
pause_running(reason) ==
    /\ pause_time' = Some(now)
    /\ elapsed_time' = Fold(elapsed_time, pause_time'[1], start_time)
    /\ state' = PauseTarget(reason)
    /\ idle_start_time' = IdleStart(reason, pause_time', idle_start_time)
    /\ last_pause_reason' = reason
    /\ UNCHANGED <<now, task_name, start_time, total_idle_time, running_total>>

pause(reason) ==
    /\ op' = [name |-> "pause", reason |-> reason]
    /\ IF PauseAllowed(state)
       THEN /\ pause_running(reason)
            /\ events' = PauseEvents(reason)
            /\ ret' = TRUE
       ELSE /\ events' = <<>>
            /\ ret' = FALSE
            /\ UNCHANGED <<now, tracker, running_total>>
    /\ NoteAlert
    /\ UNCHANGED <<store_vars, remote, boot, sync_call>>

(* ---------------------------------------------------------------------- *)
(* resume                                                                 *)
(* ---------------------------------------------------------------------- *)
ResumeAllowed_PausedOnly(st) == st = PAUSED
ResumeAllowed(st) == st \in {PAUSED, IDLE}

\* if previous_state == TimerState.IDLE and self.idle_start_time
IdleCounted_AnyPause(st, ist) == Truthy(ist)
IdleCounted(st, ist) == st = IDLE /\ Truthy(ist)

resume ==
    /\ op' = [name |-> "resume"]
    /\ IF ResumeAllowed(state)
       THEN /\ total_idle_time' = IF IdleCounted(state, idle_start_time)
                                  THEN total_idle_time + (now - idle_start_time[1])
                                  ELSE total_idle_time
            /\ start_time' = Some(now)
            /\ state' = RUNNING
            /\ events' = <<StateChange(RUNNING)>>
            /\ ret' = TRUE
       ELSE /\ events' = <<>>
            /\ ret' = FALSE
            /\ UNCHANGED <<total_idle_time, start_time, state>>
    /\ UNCHANGED <<now, task_name, elapsed_time, pause_time, last_pause_reason,
                   idle_start_time, running_total>>
    /\ NoteAlert
    /\ UNCHANGED <<store_vars, remote, boot, sync_call>>

(* ---------------------------------------------------------------------- *)
(* _get_system_idle_time and check_idle                                   *)
(* ---------------------------------------------------------------------- *)
\* what win32api reports: GetTickCount() and GetLastInputInfo() in
\* milliseconds, or an exception (ok = FALSE)
TickCount == 1000000
ProbeReadings ==
    {[ok |-> TRUE, tick_count |-> TickCount, last_input_info |-> TickCount - ms] :
        ms \in {0, 299999, 300000, 310000}}
    \cup {[ok |-> FALSE, tick_count |-> TickCount, last_input_info |-> 0]}

\* (tick_count - last_input_info) / 1000.0, or 0 on an exception
get_system_idle_time(p) ==
    IF p.ok THEN Quot(p.tick_count - p.last_input_info, 1000) ELSE Quot(0, 1)

\* idle_time >= self.idle_threshold, on the exact quotient
IdleExceeded_Strict(idle_time, threshold) == idle_time.num > threshold * idle_time.den
IdleExceeded(idle_time, threshold) == idle_time.num >= threshold * idle_time.den

\* whether check_idle() pauses the tracker
IdleFires(st, p) ==
    st = RUNNING /\ IdleExceeded(get_system_idle_time(p), idle_threshold)

check_idle(p) ==
    /\ op' = [name |-> "check_idle", probe |-> p]
    /\ IF IdleFires(state, p)
       THEN /\ pause_running(IDLE)
            /\ events' = PauseEvents(IDLE)
            /\ ret' = TRUE
       ELSE /\ events' = <<>>
            /\ ret' = FALSE
            /\ UNCHANGED <<now, tracker, running_total>>
    /\ NoteAlert
    /\ UNCHANGED <<store_vars, remote, boot, sync_call>>

(* ---------------------------------------------------------------------- *)
(* check_long_pause                                                       *)
(* ---------------------------------------------------------------------- *)
\* pause_duration >= self.paused_duration_alert
LongPauseDue_Strict(d, alert) == d > alert
LongPauseDue_Minutes(d, alert) == d * 60 >= alert
LongPauseDue(d, alert) == d >= alert

LongPauseFires(st, pt, t) ==
    /\ st \in {PAUSED, IDLE}
    /\ Truthy(pt)
    /\ LongPauseDue(t - pt[1], paused_duration_alert)

LongPauseEvents(st, pt, t) ==
    IF LongPauseFires(st, pt, t) THEN <<LongPause(t - pt[1])>> ELSE <<>>

check_long_pause ==
    /\ op' = [name |-> "check_long_pause"]
    /\ events' = LongPauseEvents(state, pause_time, now)
    /\ ret' = LongPauseFires(state, pause_time, now)
    /\ UNCHANGED <<now, tracker, running_total>>
    /\ NoteAlert
    /\ UNCHANGED <<store_vars, remote, boot, sync_call>>

(* ---------------------------------------------------------------------- *)
(* MainWindow.update_display: the once-a-second poll of the host           *)
(* ---------------------------------------------------------------------- *)
update_display(p) ==
    /\ op' = [name |-> "update_display", probe |-> p]
    /\ ret' = FALSE
    /\ IF IdleFires(state, p)
       THEN pause_running(IDLE)
       ELSE UNCHANGED <<now, tracker, running_total>>
    \* the second test reads the state check_idle() may just have changed
    /\ events' = (IF IdleFires(state, p) THEN PauseEvents(IDLE) ELSE <<>>)
                    \o LongPauseEvents(state', pause_time', now)
    /\ NoteAlert
    /\ UNCHANGED <<store_vars, remote, boot, sync_call>>

Next ==
    \/ Tick
    \/ \E name \in TaskNames : start(name)
    \/ stop
    \/ \E reason \in PauseReason : pause(reason)
    \/ resume
    \/ \E p \in ProbeReadings : check_idle(p)
    \/ check_long_pause
    \/ \E p \in ProbeReadings : update_display(p)

Spec == Init /\ [][Next]_vars

(* ---------------------------------------------------------------------- *)
(* add_session_task                                                       *)
(* ---------------------------------------------------------------------- *)
\* synced_to_sheets INTEGER DEFAULT 0
DefaultSynced == 0

\* id INTEGER PRIMARY KEY AUTOINCREMENT
NextRowId_Reuse(seq) == IF seq = 0 THEN 1 ELSE seq
NextRowId(seq) == seq + 1

\* the row INSERT INTO session_tasks (date, hours, task, description, tags)
\* writes
InsertedRow_SwapText(id, a) ==
    [id |-> id, date |-> a.date, hours |-> a.hours, task |-> a.task,
     description |-> a.tags, tags |-> a.description,
     synced_to_sheets |-> DefaultSynced]
InsertedRow(id, a) ==
    [id |-> id, date |-> a.date, hours |-> a.hours, task |-> a.task,
     description |-> a.description, tags |-> a.tags,
     synced_to_sheets |-> DefaultSynced]

\* sqlite3.OperationalError "database is locked": somebody else holds the
\* write lock and the connection's timeout runs out
WriteBlocked_Never(p) == FALSE
WriteBlocked(p) == ext_lock \/ writer \notin {0, p}

\* "database is locked" in str(e) and retries > 1
RetryAllowed(retries) == retries > 1

\* the call is made: retries = 5, nothing attempted yet
add_session_task(p, a) ==
    /\ add_call[p].pc \in {"idle", "returned", "raised"}
    /\ Len(rows) + Cardinality({q \in Procs : add_call[q].pc \in {"connect", "commit"}})
            < MaxRows
    /\ add_call' = [add_call EXCEPT ![p] =
            [pc |-> "connect", retries |-> AddRetries, attempts |-> 0,
             inserted |-> 0, args |-> a, lastrowid |-> 0, result |-> 0]]
    /\ UNCHANGED <<rows, sqlite_sequence, writer, ext_lock>>
    /\ op' = [name |-> "add_session_task", proc |-> p]
    /\ ret' = FALSE
    /\ UNCHANGED <<timer_vars, remote, boot, sync_call>>

\* one pass of the while loop up to cursor.lastrowid: connect and INSERT, or
\* the OperationalError handler
add_insert(p) ==
    LET c == add_call[p] IN
    /\ c.pc = "connect"
    /\ IF WriteBlocked(p)
       THEN /\ add_call' = [add_call EXCEPT ![p] =
                    IF RetryAllowed(c.retries)
                    THEN [c EXCEPT !.retries = c.retries - 1,
                                   !.attempts = c.attempts + 1]
                    ELSE [c EXCEPT !.pc = "raised", !.attempts = c.attempts + 1]]
            /\ UNCHANGED writer
       ELSE /\ add_call' = [add_call EXCEPT ![p] =
                    [c EXCEPT !.pc = "commit", !.attempts = c.attempts + 1,
                              !.lastrowid = NextRowId(sqlite_sequence)]]
            /\ writer' = p
    /\ UNCHANGED <<rows, sqlite_sequence, ext_lock>>
    /\ op' = [name |-> "add_insert", proc |-> p]
    /\ ret' = FALSE
    /\ UNCHANGED <<timer_vars, remote, boot, sync_call>>

\* conn.commit() and return last_row_id
add_commit(p) ==
    LET c == add_call[p] IN
    /\ c.pc = "commit"
    /\ rows' = Append(rows, InsertedRow(c.lastrowid, c.args))
    /\ sqlite_sequence' = c.lastrowid
    /\ writer' = 0
    /\ add_call' = [add_call EXCEPT ![p] =
            [c EXCEPT !.pc = "returned", !.result = c.lastrowid,
                      !.inserted = c.inserted + 1]]
    /\ UNCHANGED ext_lock
    /\ op' = [name |-> "add_commit", proc |-> p]
    /\ ret' = FALSE
    /\ UNCHANGED <<timer_vars, remote, boot, sync_call>>

\* another program takes, and later releases, the lock on the file
ExternalLock ==
    /\ ~ext_lock
    /\ writer = 0
    /\ ext_lock' = TRUE
    /\ UNCHANGED <<rows, sqlite_sequence, writer, add_call>>
    /\ op' = [name |-> "external_lock"]
    /\ ret' = FALSE
    /\ UNCHANGED <<timer_vars, remote, boot, sync_call>>

ExternalUnlock ==
    /\ ext_lock
    /\ ext_lock' = FALSE
    /\ UNCHANGED <<rows, sqlite_sequence, writer, add_call>>
    /\ op' = [name |-> "external_unlock"]
    /\ ret' = FALSE
    /\ UNCHANGED <<timer_vars, remote, boot, sync_call>>

(* ---------------------------------------------------------------------- *)
(* mark_as_synced, get_unsynced_tasks, get_all_tasks                      *)
(* ---------------------------------------------------------------------- *)
\* WHERE id = ?
MarkMatches_All(r, task_id) == TRUE
MarkMatches(r, task_id) == r.id = task_id

\* SET synced_to_sheets = 1
MarkedRow_Toggle(r) == [r EXCEPT !.synced_to_sheets = 1 - r.synced_to_sheets]
MarkedRow(r) == [r EXCEPT !.synced_to_sheets = 1]

\* cursor.rowcount of the UPDATE: the rows the WHERE clause matched, whether
\* or not their value changed
RowsAffected_Changed(rs, task_id) ==
    Cardinality({i \in DOMAIN rs :
        MarkMatches(rs[i], task_id) /\ rs[i].synced_to_sheets = 0})
RowsAffected(rs, task_id) ==
    Cardinality({i \in DOMAIN rs : MarkMatches(rs[i], task_id)})

\* the UPDATE needs the write lock; a locked database raises
\* OperationalError, which the handler turns into False
mark_as_synced(task_id) ==
    /\ op' = [name |-> "mark_as_synced", task_id |-> task_id,
              locked |-> WriteBlocked(0),
              repeat |-> \E i \in DOMAIN rows :
                            rows[i].id = task_id /\ rows[i].synced_to_sheets = 1]
    /\ IF WriteBlocked(0)
       THEN /\ ret' = FALSE
            /\ UNCHANGED rows
       ELSE /\ rows' = [i \in DOMAIN rows |->
                          IF MarkMatches(rows[i], task_id)
                          THEN MarkedRow(rows[i]) ELSE rows[i]]
            /\ ret' = (RowsAffected(rows, task_id) > 0)
    /\ UNCHANGED <<sqlite_sequence, writer, ext_lock, add_call>>
    /\ UNCHANGED <<timer_vars, remote, boot, sync_call>>

\* SELECT id, date, hours, task, description, tags ... as a dictionary
UnsyncedDict(r) ==
    [id |-> r.id, date |-> r.date, hours |-> r.hours, task |-> r.task,
     description |-> r.description, tags |-> r.tags]

IsUnsynced_Any(r) == TRUE
IsUnsynced(r) == r.synced_to_sheets = 0

\* WHERE synced_to_sheets = 0
UnsyncedOf_Limit1(rs) ==
    LET sel == SelectSeq(rs, IsUnsynced)
        one == IF sel = <<>> THEN <<>> ELSE <<sel[1]>>
    IN [i \in DOMAIN one |-> UnsyncedDict(one[i])]
UnsyncedOf(rs) ==
    LET sel == SelectSeq(rs, IsUnsynced)
    IN [i \in DOMAIN sel |-> UnsyncedDict(sel[i])]

get_unsynced_tasks ==
    /\ op' = [name |-> "get_unsynced_tasks"]
    /\ ret' = UnsyncedOf(rows)
    /\ UNCHANGED store_vars
    /\ UNCHANGED <<timer_vars, remote, boot, sync_call>>

\* 'YYYY-MM-DD' strings compare as their <<year, month, day>> do
DateBefore(a, b) ==
    \/ a[1] < b[1]
    \/ a[1] = b[1] /\ a[2] < b[2]
    \/ a[1] = b[1] /\ a[2] = b[2] /\ a[3] < b[3]

\* ORDER BY date DESC; rows of one date stay in rowid order
RECURSIVE InsertByDateDesc(_, _)
InsertByDateDesc(sorted, r) ==
    IF sorted = <<>> THEN <<r>>
    ELSE IF DateBefore(Head(sorted).date, r.date) THEN <<r>> \o sorted
    ELSE <<Head(sorted)>> \o InsertByDateDesc(Tail(sorted), r)

RECURSIVE OrderByDateDesc(_)
OrderByDateDesc(rs) ==
    IF rs = <<>> THEN <<>>
    ELSE InsertByDateDesc(OrderByDateDesc(SubSeq(rs, 1, Len(rs) - 1)), rs[Len(rs)])

get_all_tasks ==
    /\ op' = [name |-> "get_all_tasks"]
    /\ ret' = OrderByDateDesc(rows)
    /\ UNCHANGED store_vars
    /\ UNCHANGED <<timer_vars, remote, boot, sync_call>>

\* the ids a caller may ask to mark: those handed out so far and one more
TaskIds == 1..(MaxRows + 1)

NextStore ==
    \/ \E p \in Procs, a \in AddInputs : add_session_task(p, a)
    \/ \E p \in Procs : add_insert(p)
    \/ \E p \in Procs : add_commit(p)
    \/ ExternalLock
    \/ ExternalUnlock
    \/ \E task_id \in TaskIds : mark_as_synced(task_id)
    \/ get_unsynced_tasks
    \/ get_all_tasks

SpecStore == Init /\ [][NextStore]_vars

\* the same store, its callers passing any arguments the signature admits
NextAnyInput ==
    \/ \E p \in Procs, a \in AddInputs \cup InvalidInputs : add_session_task(p, a)
    \/ \E p \in Procs : add_insert(p)
    \/ \E p \in Procs : add_commit(p)
    \/ ExternalLock
    \/ ExternalUnlock
    \/ \E task_id \in TaskIds : mark_as_synced(task_id)
    \/ get_unsynced_tasks
    \/ get_all_tasks

SpecAnyInput == Init /\ [][NextAnyInput]_vars

(* ---------------------------------------------------------------------- *)
(* SheetsService.authenticate and append_row, UIService.sync_to_sheets     *)
(* ---------------------------------------------------------------------- *)
\* show_notification(title, message)
Notification(title, message) ==
    [type |-> "notification", title |-> title, message |-> message]

\* authenticate(): the worksheet is opened when the credentials are accepted
\* and the spreadsheet is found; any exception leaves self.sheet as it was
authenticate(sh, accepted) == sh \/ accepted

\* datetime.strptime(task['date'], "%Y-%m-%d").strftime("%m/%d/%Y")
FormatDate(dt) == <<dt[2], dt[3], dt[1]>>

\* the keys the loop body subscripts, task[key]: a key the dictionary lacks
\* raises KeyError
SubscriptedKeys == {"date", "id", "task_name", "Time(hrs)", "Task"}
HasKeys(task) == SubscriptedKeys \subseteq DOMAIN task

\* task.get(key, default)
DictGet(task, key, default) == IF key \in DOMAIN task THEN task[key] ELSE default

\* row_data; a category that is not a list is passed as it is
RowDataOf(task) ==
    <<FormatDate(task["date"]), task["Time(hrs)"], task["Task"],
      DictGet(task, "Description", ""), DictGet(task, "category", "")>>

\* the calls one pass makes on the store and on the SheetsService
GetUnsyncedCall == [call |-> "get_unsynced_tasks"]
AuthenticateCall(accepted) == [call |-> "authenticate", ok |-> accepted]
AppendRowCall(task, ok) == [call |-> "append_row", id |-> task["id"], ok |-> ok]
MarkCall(task) == [call |-> "mark_as_synced", id |-> task["id"]]

\* for task in unsynced_tasks, from the i-th task on. st carries the table,
\* the worksheet, the calls made, success_count, the append_row calls made
\* and the exception that ended the loop ("" for none); fail_at is the
\* append_row call the spreadsheet API refuses (0: none), locked whether
\* another writer holds the database during the pass
RECURSIVE SyncLoop(_, _, _, _, _)
SyncLoop(unsynced_tasks, i, st, fail_at, locked) ==
    IF i > Len(unsynced_tasks) THEN st
    ELSE LET task == unsynced_tasks[i] IN
    IF ~HasKeys(task) THEN [st EXCEPT !.raised = "KeyError"]
    ELSE IF st.appends + 1 = fail_at
    THEN [st EXCEPT !.calls = Append(@, AppendRowCall(task, FALSE)),
                    !.appends = @ + 1,
                    !.raised = "APIError"]
    ELSE SyncLoop(unsynced_tasks, i + 1,
            [st EXCEPT
                !.ledger = Append(@, RowDataOf(task)),
                !.calls = @ \o <<AppendRowCall(task, TRUE), MarkCall(task)>>,
                !.appends = @ + 1,
                \* mark_as_synced; its result is not looked at
                !.rows = IF locked THEN @
                         ELSE [j \in DOMAIN @ |->
                                 IF MarkMatches(@[j], task["id"])
                                 THEN MarkedRow(@[j]) ELSE @[j]],
                !.success_count = @ + 1],
            fail_at, locked)

\* if not unsynced_tasks
EmptyBatch_Never(unsynced_tasks) == FALSE
EmptyBatch(unsynced_tasks) == unsynced_tasks = <<>>

\* if not self.sheets_service.authenticate()
AuthGate_Ignored(accepted) == TRUE
AuthGate(accepted) == accepted

\* one sync pass. accepted: the credentials are accepted and the spreadsheet
\* opens; fail_at: the append_row call the API refuses
sync_to_sheets(accepted, fail_at) ==
    LET unsynced_tasks == UnsyncedOf(rows)
        st0 == [rows |-> rows, ledger |-> ledger,
                calls |-> <<GetUnsyncedCall, AuthenticateCall(accepted)>>,
                appends |-> 0, success_count |-> 0, raised |-> ""]
        out == SyncLoop(unsynced_tasks, 1, st0, fail_at, WriteBlocked(0))
        input == [name |-> "sync_to_sheets", accepted |-> accepted,
                  fail_at |-> fail_at, batch |-> unsynced_tasks]
    IN
    /\ IF EmptyBatch(unsynced_tasks)
       THEN /\ op' = input @@ [calls |-> <<GetUnsyncedCall>>]
            /\ ret' = TRUE
            /\ events' = <<>>
            /\ UNCHANGED <<rows, sheet, ledger>>
       ELSE IF ~AuthGate(accepted)
       THEN /\ op' = input @@ [calls |-> st0.calls]
            /\ ret' = FALSE
            /\ events' = <<Notification("Sync Failed", "Could not connect")>>
            /\ sheet' = authenticate(sheet, accepted)
            /\ UNCHANGED <<rows, ledger>>
       ELSE /\ op' = input @@ [calls |-> out.calls]
            /\ ret' = (out.raised = "")
            /\ events' = IF out.raised = ""
                         THEN <<Notification("Sync Complete", out.success_count)>>
                         ELSE <<Notification("Sync Error", out.raised)>>
            /\ sheet' = authenticate(sheet, accepted)
            /\ rows' = out.rows
            /\ ledger' = out.ledger
    /\ UNCHANGED <<sqlite_sequence, writer, ext_lock, add_call>>
    /\ UNCHANGED <<now, tracker, running_total, long_pause_alerted>>
    /\ UNCHANGED <<boot, sync_call>>

\* the append_row call of a pass the spreadsheet API may refuse: none, the
\* first, the second
FailPoints == {0, 1, 2}

\* the host is the one caller of the store here; other programs appear as
\* the external lock
Hosts == {1}

NextSync ==
    \/ \E p \in Hosts, a \in AddInputs : add_session_task(p, a)
    \/ \E p \in Hosts : add_insert(p)
    \/ \E p \in Hosts : add_commit(p)
    \/ ExternalLock
    \/ ExternalUnlock
    \/ \E task_id \in TaskIds : mark_as_synced(task_id)
    \/ \E accepted \in BOOLEAN, fail_at \in FailPoints : sync_to_sheets(accepted, fail_at)

SpecSync == Init /\ [][NextSync]_vars

(* ---------------------------------------------------------------------- *)
(* sync_to_sheets call by call, as run by two instances of the program on   *)
(* one database file and one spreadsheet. sync_call[p].faults counts the    *)
(* refusals the pass met: credentials, an append_row, a locked database     *)
(* ---------------------------------------------------------------------- *)
SyncReturn(c, result) == [c EXCEPT !.pc = "done", !.result = result]

\* unsynced_tasks = self.db_service.get_unsynced_tasks(); if not unsynced_tasks
sync_read(p) ==
    LET unsynced_tasks == UnsyncedOf(rows) IN
    /\ sync_call[p].pc \in {"idle", "done"}
    /\ add_call[p].pc \notin {"connect", "commit"}
    /\ sync_call' = [sync_call EXCEPT ![p] =
            IF EmptyBatch(unsynced_tasks)
            THEN [NoPass EXCEPT !.pc = "done", !.result = "true",
                                !.calls = <<GetUnsyncedCall>>]
            ELSE [NoPass EXCEPT !.pc = "auth", !.batch = unsynced_tasks,
                                !.calls = <<GetUnsyncedCall>>]]
    /\ op' = [name |-> "sync_read", proc |-> p]
    /\ ret' = EmptyBatch(unsynced_tasks)
    /\ events' = <<>>
    /\ UNCHANGED <<store_vars, remote, boot>>
    /\ UNCHANGED <<now, tracker, running_total, long_pause_alerted>>

\* if not self.sheets_service.authenticate()
sync_auth(p, accepted) ==
    LET c == [sync_call[p] EXCEPT !.calls = Append(@, AuthenticateCall(accepted))] IN
    /\ sync_call[p].pc = "auth"
    /\ IF ~AuthGate(accepted)
       THEN /\ sync_call' = [sync_call EXCEPT ![p] =
                    SyncReturn([c EXCEPT !.faults = @ + 1], "false")]
            /\ events' = <<Notification("Sync Failed", "Could not connect")>>
       ELSE /\ sync_call' = [sync_call EXCEPT ![p] = [c EXCEPT !.pc = "loop", !.i = 1]]
            /\ events' = <<>>
    /\ sheet' = authenticate(sheet, accepted)
    /\ op' = [name |-> "sync_auth", proc |-> p]
    /\ ret' = FALSE
    /\ UNCHANGED <<store_vars, ledger, boot>>
    /\ UNCHANGED <<now, tracker, running_total, long_pause_alerted>>

\* one call of the loop body: at "loop" the row is built and passed to
\* self.sheets_service.append_row(row_data), ok telling whether the
\* spreadsheet API accepts it; at "mark" comes
\* self.db_service.mark_as_synced(task['id']), success_count += 1 and the
\* end of the loop
sync_record(p, ok) ==
    LET c == sync_call[p]
        task == c.batch[c.i]
        blocked == WriteBlocked(p)
        c1 == [c EXCEPT !.calls = Append(@, MarkCall(task)),
                        !.success_count = @ + 1,
                        !.faults = IF blocked THEN @ + 1 ELSE @,
                        !.i = @ + 1]
        last == c.i = Len(c.batch)
    IN
    /\ c.pc \in {"loop", "mark"}
    /\ IF c.pc = "loop"
       THEN /\ IF ~HasKeys(task)
               THEN /\ sync_call' = [sync_call EXCEPT ![p] = SyncReturn(c, "false")]
                    /\ events' = <<Notification("Sync Error", "KeyError")>>
                    /\ UNCHANGED ledger
               ELSE IF ~ok
               THEN /\ sync_call' = [sync_call EXCEPT ![p] =
                            SyncReturn([c EXCEPT
                                !.calls = Append(@, AppendRowCall(task, FALSE)),
                                !.faults = @ + 1], "false")]
                    /\ events' = <<Notification("Sync Error", "APIError")>>
                    /\ UNCHANGED ledger
               ELSE /\ sync_call' = [sync_call EXCEPT ![p] =
                            [c EXCEPT !.calls = Append(@, AppendRowCall(task, TRUE)),
                                      !.pc = "mark"]]
                    /\ events' = <<>>
                    /\ ledger' = Append(ledger, RowDataOf(task))
            /\ ret' = FALSE
            /\ UNCHANGED rows
       ELSE /\ rows' = IF blocked THEN rows
                       ELSE [j \in DOMAIN rows |->
                               IF MarkMatches(rows[j], task["id"])
                               THEN MarkedRow(rows[j]) ELSE rows[j]]
            /\ sync_call' = [sync_call EXCEPT ![p] =
                    IF last THEN SyncReturn(c1, "true") ELSE [c1 EXCEPT !.pc = "loop"]]
            /\ events' = IF last
                         THEN <<Notification("Sync Complete", c1.success_count)>>
                         ELSE <<>>
            /\ ret' = last
            /\ UNCHANGED ledger
    /\ op' = [name |-> "sync_record", proc |-> p]
    /\ UNCHANGED <<sqlite_sequence, writer, ext_lock, add_call, sheet, boot>>
    /\ UNCHANGED <<now, tracker, running_total, long_pause_alerted>>

\* the process dies inside a pass; what it wrote stays written
Crash(p) ==
    /\ sync_call[p].pc \in {"auth", "loop", "mark"}
    /\ sync_call' = [sync_call EXCEPT ![p] =
            [sync_call[p] EXCEPT !.pc = "idle", !.result = "crashed"]]
    /\ op' = [name |-> "crash", proc |-> p]
    /\ ret' = FALSE
    /\ events' = <<>>
    /\ UNCHANGED <<store_vars, remote, boot>>
    /\ UNCHANGED <<now, tracker, running_total, long_pause_alerted>>

\* the two instances and the store; rows are marked by id as any caller of
\* mark_as_synced may do
NextPass ==
    \/ \E p \in Hosts, a \in AddInputs :
            sync_call[p].pc \in {"idle", "done"} /\ add_session_task(p, a)
    \/ \E p \in Hosts : add_insert(p)
    \/ \E p \in Hosts : add_commit(p)
    \/ \E j \in DOMAIN rows : mark_as_synced(rows[j].id)
    \/ \E p \in Procs : sync_read(p)
    \/ \E p \in Procs, accepted \in BOOLEAN : sync_auth(p, accepted)
    \/ \E p \in Procs, ok \in BOOLEAN : sync_record(p, ok)
    \/ \E p \in Procs : Crash(p)

SpecPass == Init /\ [][NextPass]_vars

(* ---------------------------------------------------------------------- *)
(* DatabaseService.__init__: _is_database_locked, _initialize_database,    *)
(* _initialize_database_fallback                                           *)
(* ---------------------------------------------------------------------- *)
\* the files a crashed process can leave next to the database file
LockArtifacts == {"-journal", "-wal"}

\* _is_database_locked(): the database file exists and a journal or wal file
\* lies next to it. (With neither file the answer is that of a test
\* connection; no journal exists on that branch, so nothing that follows
\* depends on it.)
is_database_locked == schema /\ files # {}

\* os.remove(journal_path) if it exists; removed: no OSError
RemoveStale_Both(fs, removed) == IF removed THEN {} ELSE fs
RemoveStale(fs, removed) == IF removed THEN fs \ {"-journal"} ELSE fs

\* max_retries = 3
max_retries_OneMore == 3 + 1
max_retries == 3

\* CREATE TABLE raises sqlite3.OperationalError "database is locked"
CreateBlocked == ext_lock

\* CREATE TABLE IF NOT EXISTS session_tasks: an existing table is kept
CreatedTable_Replaced(exists, rs) == <<>>
CreatedTable(exists, rs) == IF exists THEN rs ELSE <<>>

\* __init__ up to the while loop: the lock check and the journal removal
init_database(removed) ==
    /\ init_call.pc = "none"
    /\ files' = IF is_database_locked THEN RemoveStale(files, removed) ELSE files
    /\ init_call' = [pc |-> "attempt", retry_count |-> 0, attempts |-> 0]
    /\ op' = [name |-> "init_database", found |-> files]
    /\ ret' = FALSE
    /\ UNCHANGED <<schema, store_vars>>
    /\ UNCHANGED <<timer_vars, remote, sync_call>>

\* one pass of the while loop of _initialize_database. A PRAGMA that fails
\* is logged and the loop body goes on to CREATE TABLE
init_attempt ==
    /\ init_call.pc = "attempt"
    /\ IF CreateBlocked
       THEN /\ init_call' =
                IF init_call.retry_count < max_retries - 1
                THEN [init_call EXCEPT !.retry_count = @ + 1, !.attempts = @ + 1]
                \* raise; __init__ goes to the fallback
                ELSE [init_call EXCEPT !.pc = "fallback", !.attempts = @ + 1]
            /\ UNCHANGED <<schema, rows>>
       ELSE /\ init_call' = [init_call EXCEPT !.pc = "done", !.attempts = @ + 1]
            /\ schema' = TRUE
            /\ rows' = CreatedTable(schema, rows)
    /\ op' = [name |-> "init_attempt", locked |-> CreateBlocked]
    /\ ret' = FALSE
    /\ UNCHANGED <<files, sqlite_sequence, writer, ext_lock, add_call>>
    /\ UNCHANGED <<timer_vars, remote, sync_call>>

\* _initialize_database_fallback: one more connection, without WAL; its
\* exception leaves __init__
init_fallback ==
    /\ init_call.pc = "fallback"
    /\ IF CreateBlocked
       THEN /\ init_call' = [init_call EXCEPT !.pc = "failed", !.attempts = @ + 1]
            /\ UNCHANGED <<schema, rows>>
       ELSE /\ init_call' = [init_call EXCEPT !.pc = "done", !.attempts = @ + 1]
            /\ schema' = TRUE
            /\ rows' = CreatedTable(schema, rows)
    /\ op' = [name |-> "init_fallback", locked |-> CreateBlocked]
    /\ ret' = FALSE
    /\ UNCHANGED <<files, sqlite_sequence, writer, ext_lock, add_call>>
    /\ UNCHANGED <<timer_vars, remote, sync_call>>

\* the program ends, cleanly or not, and is started again later; left: the
\* files its death leaves next to an existing database
Restart(left) ==
    /\ init_call.pc \in {"done", "failed"}
    /\ init_call' = NoInit
    /\ files' = IF schema THEN files \cup left ELSE files
    /\ add_call' = [p \in Procs |-> NoCall]
    /\ writer' = 0
    /\ op' = [name |-> "restart", left |-> left]
    /\ ret' = FALSE
    /\ UNCHANGED <<schema, rows, sqlite_sequence, ext_lock>>
    /\ UNCHANGED <<timer_vars, remote, sync_call>>

\* before the first run: no database file
InitAbsent ==
    /\ now = Clock0
    /\ state = STOPPED
    /\ task_name = ""
    /\ start_time = None
    /\ elapsed_time = 0
    /\ pause_time = None
    /\ last_pause_reason = NoReason
    /\ idle_start_time = None
    /\ total_idle_time = 0
    /\ op = [name |-> "init"]
    /\ ret = FALSE
    /\ events = <<>>
    /\ running_total = 0
    /\ long_pause_alerted = FALSE
    /\ rows = <<>>
    /\ sqlite_sequence = 0
    /\ writer = 0
    /\ ext_lock = FALSE
    /\ add_call = [p \in Procs |-> NoCall]
    /\ sheet = FALSE
    /\ ledger = <<>>
    /\ schema = FALSE
    /\ files = {}
    /\ init_call = NoInit
    /\ sync_call = [p \in Procs |-> NoPass]

NextInit ==
    \/ \E removed \in BOOLEAN : init_database(removed)
    \/ init_attempt
    \/ init_fallback
    \/ \E left \in SUBSET LockArtifacts : Restart(left)
    \/ ExternalLock
    \/ ExternalUnlock
    \/ init_call.pc = "done" /\ \E p \in Hosts, a \in AddInputs : add_session_task(p, a)
    \/ init_call.pc = "done" /\ \E p \in Hosts : add_insert(p)
    \/ init_call.pc = "done" /\ \E p \in Hosts : add_commit(p)
    \/ init_call.pc = "done" /\ \E task_id \in TaskIds : mark_as_synced(task_id)

SpecInit == InitAbsent /\ [][NextInit]_vars

(* ---------------------------------------------------------------------- *)
(* UIService.stop_task: the host stops the timer and saves the session     *)
(* ---------------------------------------------------------------------- *)
\* def add_session_task(self, date, hours, task, description="", tags="")
AddParams == {"date", "hours", "task", "description", "tags"}
AddRequired == {"date", "hours", "task"}
\* the keyword arguments stop_task passes
StopTaskKeywords == {"date", "time_elapsed", "task_name", "description", "category"}

\* Python binds a call made with keyword arguments only when every keyword
\* names a parameter and every parameter without a default is given;
\* otherwise the call raises TypeError before the function body runs
CallBinds(keywords, params, required) ==
    keywords \subseteq params /\ required \subseteq keywords

\* datetime.datetime.now().strftime("%Y-%m-%d")
Today == <<2023, 11, 6>>

get_current_task_name == IF state = STOPPED THEN "" ELSE task_name

\* the store is not contended here: the one attempt of add_session_task
\* inserts and commits
stop_task ==
    LET name == get_current_task_name
        stopped == IF state = RUNNING THEN Fold(elapsed_time, now, start_time)
                   ELSE elapsed_time
        hours_elapsed == IF state # STOPPED THEN StopReturn(stopped) ELSE Quot(0, 1)
        id == NextRowId(sqlite_sequence)
    IN
    /\ op' = [name |-> "stop_task"]
    /\ elapsed_time' = IF state # STOPPED THEN stopped ELSE elapsed_time
    /\ state' = STOPPED
    /\ events' = IF state # STOPPED THEN <<StateChange(STOPPED)>> ELSE <<>>
    /\ IF hours_elapsed.num > 0
            /\ CallBinds(StopTaskKeywords, AddParams, AddRequired)
       THEN /\ rows' = Append(rows, InsertedRow(id,
                        [date |-> Today, hours |-> hours_elapsed, task |-> name,
                         description |-> "", tags |-> ""]))
            /\ sqlite_sequence' = id
            /\ ret' = TRUE
       ELSE \* no elapsed time, or the TypeError caught by "except Exception"
            /\ ret' = FALSE
            /\ UNCHANGED <<rows, sqlite_sequence>>
    /\ UNCHANGED <<now, task_name, start_time, pause_time, last_pause_reason,
                   idle_start_time, total_idle_time, running_total>>
    /\ NoteAlert
    /\ UNCHANGED <<writer, ext_lock, add_call, remote, boot, sync_call>>

NextHost ==
    \/ Tick
    \/ \E name \in TaskNames : start(name)
    \/ stop
    \/ \E reason \in PauseReason : pause(reason)
    \/ resume
    \/ \E p \in ProbeReadings : check_idle(p)
    \/ check_long_pause
    \/ \E p \in ProbeReadings : update_display(p)
    \/ stop_task

SpecHost == Init /\ [][NextHost]_vars

(* ---------------------------------------------------------------------- *)
(* The same tracker on the clock of scenario A: the waits between calls    *)
(* are 125, 400 and 10 seconds, in that order                              *)
(* ---------------------------------------------------------------------- *)
ScenarioWaits == <<125, 400, 10>>
RECURSIVE WaitedBefore(_)
WaitedBefore(k) == IF k <= 1 THEN 0 ELSE WaitedBefore(k - 1) + ScenarioWaits[k - 1]
\* the instant at which the k-th wait of the scenario begins
ScenarioInstant(k) == Clock0 + WaitedBefore(k)

TickA ==
    \E k \in DOMAIN ScenarioWaits :
        /\ now = ScenarioInstant(k)
        /\ Advance(ScenarioWaits[k])

NextA ==
    \/ TickA
    \/ \E name \in TaskNames : start(name)
    \/ stop
    \/ \E reason \in PauseReason : pause(reason)
    \/ resume
    \/ \E p \in ProbeReadings : check_idle(p)
    \/ check_long_pause
    \/ \E p \in ProbeReadings : update_display(p)

SpecA == Init /\ [][NextA]_vars

(* ====================================================================== *)
(* Properties of the session timer                                        *)
(* ====================================================================== *)
\* the idle duration a probe reading stands for, in milliseconds
ProbeIdleMs(p) == IF p.ok THEN p.tick_count - p.last_input_info ELSE 0
Polls == {"check_idle", "check_long_pause", "update_display"}
HasEvent(es, type) == \E i \in DOMAIN es : es[i].type = type

\* C1: get_elapsed_time() of the current session always equals the time the
\* tracker spent RUNNING since the last successful start; time spent PAUSED
\* or IDLE adds nothing.
C1_ElapsedIsRunningTime == get_elapsed_time(FALSE) = running_total

\* a session that ran, was paused while the clock advanced, and runs again
C1_Witness ==
    /\ state = RUNNING
    /\ elapsed_time > 0
    /\ now > start_time[1]
    /\ Truthy(pause_time)
    /\ start_time[1] > pause_time[1]
    /\ running_total = elapsed_time + (now - start_time[1])

\* C2: start(name) returns true exactly when the state is STOPPED, and then
\* the state is RUNNING and the accumulated elapsed time is zero; in any
\* other state it returns false and the state stays what it was.
C2_Start ==
    [][op'.name = "start" =>
        IF state = STOPPED
        THEN ret' = TRUE /\ state' = RUNNING /\ elapsed_time' = 0
        ELSE ret' = FALSE /\ state' = state]_vars

\* a second session is started after one that had accumulated time
C2_Witness ==
    /\ op.name = "start"
    /\ ret = TRUE
    /\ state = RUNNING
    /\ elapsed_time = 0
    /\ Truthy(pause_time)
    /\ now > pause_time[1]

\* C3: pause(reason) returns true exactly when the state is RUNNING; then
\* USER and SYSTEM lead to PAUSED and IDLE leads to IDLE, the interval since
\* the start instant is added to the accumulated elapsed time and
\* last_pause_reason is the reason; in any other state it returns false.
C3_Pause ==
    [][op'.name = "pause" =>
        IF state = RUNNING
        THEN /\ ret' = TRUE
             /\ state' = (IF op'.reason \in {USER, SYSTEM} THEN PAUSED ELSE IDLE)
             /\ elapsed_time' = elapsed_time + (now - start_time[1])
             /\ last_pause_reason' = op'.reason
        ELSE ret' = FALSE]_vars

\* pause(IDLE) after a running interval of positive length
C3_Witness ==
    /\ op.name = "pause"
    /\ op.reason = IDLE
    /\ ret = TRUE
    /\ state = IDLE
    /\ elapsed_time > 0
    /\ last_pause_reason = IDLE

\* C4: resume() returns true exactly when the state is PAUSED or IDLE; then
\* the state is RUNNING, the start instant is now and the accumulated
\* elapsed time is unchanged; in STOPPED or RUNNING it returns false.
C4_Resume ==
    [][op'.name = "resume" =>
        IF state \in {PAUSED, IDLE}
        THEN /\ ret' = TRUE
             /\ state' = RUNNING
             /\ start_time' = Some(now)
             /\ elapsed_time' = elapsed_time
        ELSE ret' = FALSE]_vars

\* a resume out of IDLE that kept the time accumulated before the pause
C4_Witness ==
    /\ op.name = "resume"
    /\ ret = TRUE
    /\ state = RUNNING
    /\ last_pause_reason = IDLE
    /\ elapsed_time > 0
    /\ start_time = Some(now)
    /\ now > pause_time[1]

\* C5: stop() from RUNNING, PAUSED or IDLE sets the state to STOPPED and
\* returns the accumulated elapsed seconds divided by 3600, the open running
\* interval included when it leaves RUNNING; stop() in STOPPED returns 0 and
\* changes nothing.
C5_Stop ==
    [][op'.name = "stop" =>
        IF state # STOPPED
        THEN /\ state' = STOPPED
             /\ elapsed_time' = IF state = RUNNING
                                THEN elapsed_time + (now - start_time[1])
                                ELSE elapsed_time
             /\ QuotEq(ret', Quot(elapsed_time', 3600))
        ELSE /\ QuotEq(ret', Quot(0, 1))
             /\ UNCHANGED tracker]_vars

\* stop() out of RUNNING with an open interval on top of accumulated time
C5_Witness ==
    /\ op.name = "stop"
    /\ state = STOPPED
    /\ Truthy(pause_time)
    /\ start_time[1] > pause_time[1]
    /\ now > start_time[1]
    /\ ret.num > now - start_time[1]
    /\ elapsed_time = running_total

\* C6: a start() call rejected because the state is RUNNING, PAUSED or IDLE
\* changes no field of the tracker, the task name of the session in
\* progress included, and emits no event.
C6_RejectedStartIsNoOp ==
    [][(op'.name = "start" /\ state # STOPPED) =>
        (UNCHANGED tracker /\ events' = <<>>)]_vars

\* C7: pause() outside RUNNING and resume() outside PAUSED and IDLE change
\* nothing: state, accumulated elapsed time, idle total and the recorded
\* instants stay as they were and no event fires.
C7_RejectedPauseResumeAreNoOps ==
    [][((op'.name = "pause" /\ state # RUNNING)
            \/ (op'.name = "resume" /\ state \notin {PAUSED, IDLE})) =>
        (UNCHANGED tracker /\ events' = <<>> /\ ret' = FALSE)]_vars

\* pause() called on an already paused session that has accumulated time
C7_Witness ==
    /\ op.name = "pause"
    /\ ret = FALSE
    /\ state = PAUSED
    /\ op.reason = IDLE
    /\ elapsed_time > 0

\* C8: check_idle() in RUNNING moves the tracker to IDLE, fires the
\* idle-detected event, sets last_pause_reason to IDLE and returns true
\* exactly when the probe's idle duration is at least the idle threshold;
\* below the threshold, or outside RUNNING, it changes nothing and returns
\* false.
C8_CheckIdle ==
    [][op'.name = "check_idle" =>
        IF state = RUNNING /\ ProbeIdleMs(op'.probe) >= idle_threshold * 1000
        THEN /\ state' = IDLE
             /\ HasEvent(events', "idle_detected")
             /\ last_pause_reason' = IDLE
             /\ ret' = TRUE
        ELSE /\ UNCHANGED tracker
             /\ events' = <<>>
             /\ ret' = FALSE]_vars

\* the probe reports exactly the threshold and the tracker goes IDLE
C8_Witness ==
    /\ op.name = "check_idle"
    /\ ProbeIdleMs(op.probe) = idle_threshold * 1000
    /\ ret = TRUE
    /\ state = IDLE
    /\ HasEvent(events, "idle_detected")

\* C9: once IDLE, no check_idle(), check_long_pause() or update_display()
\* poll moves the tracker to RUNNING, whatever the probe reports; only
\* resume() takes IDLE to RUNNING.
C9_IdleIsOneWay ==
    [][state = IDLE =>
        /\ (op'.name \in Polls => state' = IDLE)
        /\ (state' = RUNNING => op'.name = "resume")]_vars

\* an IDLE tracker polled while the probe reports fresh input
C9_Witness ==
    /\ op.name = "update_display"
    /\ op.probe.ok
    /\ ProbeIdleMs(op.probe) = 0
    /\ state = IDLE
    /\ now > pause_time[1]

\* C10: check_long_pause() in PAUSED or IDLE fires the long-pause event,
\* carrying now minus the pause instant, exactly when that duration is at
\* least the alert threshold; once it has fired, every later poll of the
\* same pause fires again; in RUNNING or STOPPED it never fires.
C10_CheckLongPause ==
    [][op'.name = "check_long_pause" =>
        /\ IF state \in {PAUSED, IDLE} /\ now - pause_time[1] >= paused_duration_alert
           THEN events' = <<LongPause(now - pause_time[1])>> /\ ret' = TRUE
           ELSE events' = <<>> /\ ret' = FALSE
        /\ (long_pause_alerted => HasEvent(events', "long_pause"))
        /\ UNCHANGED tracker]_vars

\* the event fires again, later in a pause that has already raised it
C10_Witness ==
    /\ op.name = "check_long_pause"
    /\ ret = TRUE
    /\ state = PAUSED
    /\ events = <<LongPause(now - pause_time[1])>>
    /\ now - pause_time[1] > paused_duration_alert

\* the tracker of scenario A right after its 400 seconds of pause: started
\* at the first instant, paused by the user 125 seconds later
ScenarioAPaused ==
    /\ now = ScenarioInstant(3)
    /\ state = PAUSED
    /\ last_pause_reason = USER
    /\ pause_time = Some(ScenarioInstant(2))
    /\ elapsed_time = 125
\* the tracker of scenario A right before its stop: resumed after the pause
\* and running for 10 more seconds
ScenarioARunning ==
    /\ now = ScenarioInstant(4)
    /\ state = RUNNING
    /\ start_time = Some(ScenarioInstant(3))
    /\ pause_time = Some(ScenarioInstant(2))
    /\ elapsed_time = 125

\* C11 (as stated): in scenario A check_long_pause() after 400 seconds of
\* pause fires the long-pause event with duration 400, and the final stop
\* returns 135/3600 hours.
C11_ScenarioA_Original ==
    [][/\ (op'.name = "check_long_pause" /\ ScenarioAPaused) =>
            events' = <<LongPause(400)>>
       /\ (op'.name = "stop" /\ ScenarioARunning) =>
            QuotEq(ret', Quot(135, 3600))]_vars

\* C11 (amended): in scenario A check_long_pause() after 400 seconds of
\* pause fires nothing and returns false, 400 being below the default alert
\* threshold of 600 seconds; the final stop returns 135/3600 hours.
C11_ScenarioA ==
    [][/\ (op'.name = "check_long_pause" /\ ScenarioAPaused) =>
            (events' = <<>> /\ ret' = FALSE)
       /\ (op'.name = "stop" /\ ScenarioARunning) =>
            QuotEq(ret', Quot(135, 3600))]_vars

\* scenario A has run to its end
C11_Witness ==
    /\ op.name = "stop"
    /\ now = ScenarioInstant(4)
    /\ state = STOPPED
    /\ start_time = Some(ScenarioInstant(3))
    /\ pause_time = Some(ScenarioInstant(2))
    /\ last_pause_reason = USER
    /\ elapsed_time = 135
    /\ ret = Quot(135, 3600)

IsStateChange(e) == e.type = "state_change"
IsIdleDetected(e) == e.type = "idle_detected"
\* whether a call of the last step's kind, made in state st, is accepted
Accepted(call, st) ==
    CASE call = "start" -> st = STOPPED
      [] call = "pause" -> st = RUNNING
      [] call = "resume" -> st \in {PAUSED, IDLE}
      [] call = "stop" -> st # STOPPED
      [] OTHER -> FALSE

\* C12: every successful start, pause, resume and stop emits exactly one
\* state-change event, carrying the state the tracker is in after the call,
\* and a rejected call emits none; over all steps, the state-change events
\* of a step are exactly the state the tracker moved to, if it moved.
C12_StateChangeEvents ==
    [][/\ (op'.name \in {"start", "pause", "resume", "stop"} =>
            SelectSeq(events', IsStateChange) =
                IF Accepted(op'.name, state) THEN <<StateChange(state')>> ELSE <<>>)
       /\ SelectSeq(events', IsStateChange) =
                IF state' # state THEN <<StateChange(state')>> ELSE <<>>]_vars

\* a successful pause(SYSTEM) with its one state-change event
C12_Witness ==
    /\ op.name = "pause"
    /\ op.reason = SYSTEM
    /\ ret = TRUE
    /\ events = <<StateChange(PAUSED)>>
    /\ state = PAUSED

\* C13: the idle-detected event fires exactly once for each entry into
\* IDLE, right after the state-change event of that entry, and in no other
\* step: not for pause(USER), pause(SYSTEM) or any other operation.
C13_IdleDetectedEvents ==
    [][IF state # IDLE /\ state' = IDLE
       THEN /\ Len(SelectSeq(events', IsIdleDetected)) = 1
            /\ Len(events') >= 2
            /\ events'[1] = StateChange(IDLE)
            /\ events'[2] = IdleDetected
       ELSE SelectSeq(events', IsIdleDetected) = <<>>]_vars

\* the host's poll has taken the tracker into IDLE
C13_Witness ==
    /\ op.name = "update_display"
    /\ state = IDLE
    /\ events = <<StateChange(IDLE), IdleDetected>>
    /\ pause_time = Some(now)

\* C37: resume() from IDLE adds now minus the instant the tracker went IDLE
\* to total_idle_time and leaves elapsed_time alone; resume() from PAUSED
\* leaves total_idle_time alone; no other call changes total_idle_time, a
\* start() of a new session included, so it never decreases.
C37_IdleTotal ==
    [][/\ (op'.name = "resume" /\ state = IDLE) =>
            /\ total_idle_time' = total_idle_time + (now - pause_time[1])
            /\ elapsed_time' = elapsed_time
       /\ ~(op'.name = "resume" /\ state = IDLE) =>
            total_idle_time' = total_idle_time
       /\ total_idle_time' >= total_idle_time]_vars

\* a new session has been started and the idle total of the earlier one
\* is still there
C37_Witness ==
    /\ op.name = "start"
    /\ ret = TRUE
    /\ state = RUNNING
    /\ elapsed_time = 0
    /\ total_idle_time > 0
    /\ last_pause_reason = IDLE

RowData(r) == UnsyncedDict(r)
RowIds(rs) == {rs[i].id : i \in DOMAIN rs}

\* C14: committed records are stable: whatever add, mark_as_synced,
\* get_unsynced_tasks and get_all_tasks calls are made, every stored row
\* stays, with the same id, date, hours, task, description and tags, and
\* its synced flag only ever goes from 0 to 1.
C14_RecordsStable ==
    [][/\ Len(rows') >= Len(rows)
       /\ \A i \in DOMAIN rows :
            /\ RowData(rows'[i]) = RowData(rows[i])
            /\ rows'[i].synced_to_sheets \in {0, 1}
            /\ rows'[i].synced_to_sheets >= rows[i].synced_to_sheets]_vars

\* a row already marked is marked again, next to a second row
C14_Witness ==
    /\ op.name = "mark_as_synced"
    /\ op.task_id = 1
    /\ ~op.locked
    /\ Len(rows) = 2
    /\ rows[1].id = 1
    /\ rows[1].synced_to_sheets = 1
    /\ sqlite_sequence = 2

\* C15: a successful add inserts exactly one new row, with synced = 0, and
\* returns its id, which no row stored before has; get_unsynced_tasks then
\* lists the new row.
C15_AddInsertsOne ==
    [][\A p \in Procs :
        (add_call'[p].pc = "returned" /\ add_call[p].pc # "returned") =>
            /\ Len(rows') = Len(rows) + 1
            /\ SubSeq(rows', 1, Len(rows)) = rows
            /\ rows'[Len(rows')].id = add_call'[p].result
            /\ rows'[Len(rows')].synced_to_sheets = 0
            /\ RowData(rows'[Len(rows')]).task = add_call[p].args.task
            /\ add_call'[p].result \notin RowIds(rows)
            /\ \E j \in DOMAIN UnsyncedOf(rows') :
                    UnsyncedOf(rows')[j].id = add_call'[p].result]_vars

\* an add returns the id of a second row
C15_Witness ==
    /\ add_call[2].pc = "returned"
    /\ add_call[2].result = 2
    /\ Len(rows) = 2
    /\ rows[2].id = 2
    /\ rows[2].synced_to_sheets = 0
    /\ rows[1].synced_to_sheets = 1

\* C16: when stop_task ends a session (RUNNING, PAUSED or IDLE) that has
\* positive elapsed time, and the store is not contended, the session is
\* added as one unsynced row carrying the task name and the elapsed hours,
\* and stop_task returns true.
C16_StopTaskSaves ==
    [][(op'.name = "stop_task" /\ state # STOPPED /\ elapsed_time' > 0) =>
            /\ ret' = TRUE
            /\ Len(rows') = Len(rows) + 1
            /\ rows'[Len(rows')].task = task_name
            /\ QuotEq(rows'[Len(rows')].hours, Quot(elapsed_time', 3600))
            /\ rows'[Len(rows')].synced_to_sheets = 0]_vars

\* C17: add makes at most 5 insert attempts; it ends in failure only after
\* 5 attempts that all met the lock, and then it has inserted nothing; when
\* an attempt gets through, it inserts exactly one row.
C17_AddRetriesBounded ==
    \A p \in Procs :
        LET c == add_call[p] IN
        /\ c.attempts <= 5
        /\ c.inserted <= 1
        /\ (c.pc = "raised" => c.attempts = 5 /\ c.inserted = 0 /\ c.result = 0)
        /\ (c.pc = "connect" => c.inserted = 0 /\ c.attempts < 5)
        /\ (c.pc = "returned" =>
                /\ c.inserted = 1
                /\ Cardinality({i \in DOMAIN rows : rows[i].id = c.result}) = 1)

\* an add has given up on a database that stayed locked
C17_Witness ==
    /\ add_call[1].pc = "raised"
    /\ add_call[1].attempts = 5
    /\ ext_lock
    /\ rows = <<>>

\* C18: expected failures come back as values: an add whose lock retries
\* are exhausted returns a failure value and never ends with an exception
\* leaving add_session_task.
C18_NoExceptionEscapes ==
    \A p \in Procs : add_call[p].pc # "raised"

\* C19: two add calls running concurrently, each getting through within
\* its retry budget, both succeed: they return two distinct ids and leave
\* exactly two new rows, one per call.
C19_ConcurrentAdds ==
    (\A p \in Procs : add_call[p].pc = "returned") =>
        /\ \A p, q \in Procs : p # q => add_call[p].result # add_call[q].result
        /\ \A p \in Procs :
            LET mine == {i \in DOMAIN rows : rows[i].id = add_call[p].result} IN
            /\ Cardinality(mine) = 1
            /\ \A i \in mine : RowData(rows[i]).task = add_call[p].args.task
        /\ Cardinality(RowIds(rows)) = Len(rows)

\* both calls have returned, the second after being turned away at least once
C19_Witness ==
    /\ add_call[1].pc = "returned"
    /\ add_call[2].pc = "returned"
    /\ add_call[1].result = 1
    /\ add_call[2].result = 2
    /\ add_call[2].attempts > 1
    /\ add_call[1].args # add_call[2].args
    /\ Len(rows) = 2

\* what mark_as_synced does to the table when its UPDATE runs
MarkedTable(rs, task_id) ==
    [i \in DOMAIN rs |->
        IF rs[i].id = task_id THEN [rs[i] EXCEPT !.synced_to_sheets = 1] ELSE rs[i]]

\* C20 (as stated): mark_synced(id) sets synced on the row with that id and
\* on no other, and returns true when such a row exists and false when
\* none does; nothing else changes.
C20_MarkSynced_Original ==
    [][op'.name = "mark_as_synced" =>
        /\ rows' = MarkedTable(rows, op'.task_id)
        /\ ret' = (op'.task_id \in RowIds(rows))
        /\ UNCHANGED <<sqlite_sequence, writer, ext_lock, add_call>>]_vars

\* C20 (amended): the same, provided the database is not locked by another
\* writer when the call is made; if it is, mark_synced returns false and
\* changes nothing, whether or not a row has that id.
C20_MarkSynced ==
    [][op'.name = "mark_as_synced" =>
        /\ IF ext_lock \/ writer # 0
           THEN rows' = rows /\ ret' = FALSE
           ELSE /\ rows' = MarkedTable(rows, op'.task_id)
                /\ ret' = (op'.task_id \in RowIds(rows))
        /\ UNCHANGED <<sqlite_sequence, writer, ext_lock, add_call>>]_vars

\* the second of two rows has been marked, the first left unsynced
C20_Witness ==
    /\ op.name = "mark_as_synced"
    /\ op.task_id = 2
    /\ ret = TRUE
    /\ Len(rows) = 2
    /\ rows[1].synced_to_sheets = 0
    /\ rows[2].synced_to_sheets = 1
    /\ rows[2].id = 2

\* C21 (as stated): mark_synced(id) called again on an id it has already
\* marked leaves the store as the first call left it and returns false,
\* because the record is already synced.
C21_MarkTwice_Original ==
    [][(op'.name = "mark_as_synced" /\ op'.repeat) =>
        /\ rows' = rows
        /\ ret' = FALSE]_vars

\* C21 (amended): mark_synced(id) called again on an id it has already
\* marked leaves the store as the first call left it and returns true again,
\* the row being matched whether or not it is already synced; it returns
\* false only when the database is locked by another writer.
C21_MarkTwice ==
    [][(op'.name = "mark_as_synced" /\ op'.repeat) =>
        /\ rows' = rows
        /\ UNCHANGED <<sqlite_sequence, writer, ext_lock, add_call>>
        /\ ret' = ~(ext_lock \/ writer # 0)]_vars

\* the second call on row 1, made on an unlocked database holding two rows
C21_Witness ==
    /\ op.name = "mark_as_synced"
    /\ op.repeat
    /\ op.task_id = 1
    /\ ~op.locked
    /\ ret = TRUE
    /\ Len(rows) = 2
    /\ rows[1].synced_to_sheets = 1
    /\ rows[2].synced_to_sheets = 0

\* C22: round trip: the get_all_tasks call that follows a successful add
\* lists a record with the id the add returned, the date, hours, task,
\* description and tags that were passed, and synced = 0.
C22_RoundTrip ==
    [][(op.name = "add_commit" /\ op'.name = "get_all_tasks") =>
        LET c == add_call[op.proc] IN
        \E j \in DOMAIN ret' :
            /\ ret'[j].id = c.result
            /\ ret'[j].date = c.args.date
            /\ QuotEq(ret'[j].hours, c.args.hours)
            /\ ret'[j].task = c.args.task
            /\ ret'[j].description = c.args.description
            /\ ret'[j].tags = c.args.tags
            /\ ret'[j].synced_to_sheets = 0]_vars

\* the row added second, of a later date, is listed first, with its text
C22_Witness ==
    /\ op.name = "get_all_tasks"
    /\ add_call[2].pc = "returned"
    /\ add_call[2].result = 2
    /\ Len(ret) = 2
    /\ ret[1].id = 2
    /\ ret[1].description = "d"
    /\ ret[1].tags = "t"
    /\ ret[1].synced_to_sheets = 0
    /\ ret[2].id = 1

\* C23: get_unsynced_tasks returns every row whose synced flag is 0 exactly
\* once, returns nothing else, in particular no row whose flag is 1, and
\* leaves the store as it was.
C23_GetUnsynced ==
    [][op'.name = "get_unsynced_tasks" =>
        /\ \A i \in DOMAIN rows :
              rows[i].synced_to_sheets = 0 =>
                Cardinality({j \in DOMAIN ret' : ret'[j] = RowData(rows[i])}) = 1
        /\ \A j \in DOMAIN ret' :
              \E i \in DOMAIN rows :
                rows[i].synced_to_sheets = 0 /\ ret'[j] = RowData(rows[i])
        /\ UNCHANGED store_vars]_vars

\* of two rows the first is synced: only the second is returned
C23_Witness ==
    /\ op.name = "get_unsynced_tasks"
    /\ Len(rows) = 2
    /\ rows[1].synced_to_sheets = 1
    /\ rows[2].synced_to_sheets = 0
    /\ Len(ret) = 1
    /\ ret[1].id = 2

\* C24: an add with an empty task name or a negative number of hours is
\* rejected before it touches the store: such a call never inserts, and no
\* stored row has an empty task name or negative hours.
C24_AddValidates ==
    /\ \A p \in Procs :
          (add_call[p].args.task = "" \/ add_call[p].args.hours.num < 0) =>
                add_call[p].pc \notin {"commit", "returned"}
    /\ \A i \in DOMAIN rows :
          rows[i].task # "" /\ rows[i].hours.num >= 0

(* ====================================================================== *)
(* Properties of the construction of the store                            *)
(* ====================================================================== *)
InitSteps == {"init_database", "init_attempt", "init_fallback"}

C35_InitBounded_Original ==
    /\ init_call.attempts <= 3
    /\ (init_call.pc = "failed" => init_call.attempts = 3)

\* C35 (amended): _initialize_database makes at most 3 attempts; when all
\* three meet the lock, __init__ makes one more attempt through
\* _initialize_database_fallback, and the error reaches the caller only
\* when that fourth attempt meets the lock too; an attempt that finds the
\* store unlocked succeeds; there is never a fifth attempt.
C35_InitBounded ==
    [][/\ init_call'.attempts <= 3 + 1
       /\ (init_call'.pc = "attempt" =>
                init_call'.attempts = init_call'.retry_count /\ init_call'.attempts < 3)
       /\ (init_call'.pc = "fallback" => init_call'.attempts = 3)
       /\ (init_call'.pc = "failed" => init_call'.attempts = 3 + 1)
       /\ ((op'.name \in {"init_attempt", "init_fallback"} /\ ~ext_lock) =>
                init_call'.pc = "done")
       /\ ((op'.name \in {"init_attempt", "init_fallback"} /\ ext_lock) =>
                init_call'.pc # "done")]_vars

\* the lock held through all four attempts: the constructor has failed
C35_Witness ==
    /\ init_call.pc = "failed"
    /\ init_call.attempts = 4
    /\ ext_lock
    /\ op.name = "init_fallback"

\* C36: when the connection attempts of initialize begin, no journal or wal
\* file of a crashed process lies next to the database file any more.
C36_StaleArtifactsCleared ==
    init_call.pc \in {"attempt", "fallback"} => files = {}

(* ====================================================================== *)
(* Properties of the sync pass                                            *)
(* ====================================================================== *)
IsSync(call) == call.name = "sync_to_sheets"
CallNames(calls) == {calls[j].call : j \in DOMAIN calls}
SyncedIn(rs, id) == \E j \in DOMAIN rs : rs[j].id = id /\ rs[j].synced_to_sheets = 1
IsRecordCall(c) == c.call \in {"append_row", "mark_as_synced"}

\* C25: a sync pass that finds no unsynced row returns true without calling
\* authenticate or append_row, and leaves the store and the worksheet as
\* they were.
C25_NothingToSync ==
    [][(IsSync(op') /\ \A i \in DOMAIN rows : rows[i].synced_to_sheets = 1) =>
        /\ ret' = TRUE
        /\ CallNames(op'.calls) \cap {"authenticate", "append_row", "mark_as_synced"} = {}
        /\ UNCHANGED store_vars
        /\ UNCHANGED remote]_vars

\* a pass over a table whose two rows are both synced already
C25_Witness ==
    /\ IsSync(op)
    /\ op.accepted
    /\ Len(rows) = 2
    /\ \A i \in DOMAIN rows : rows[i].synced_to_sheets = 1
    /\ op.batch = <<>>
    /\ ret = TRUE
    /\ ledger = <<>>

\* C26: when authenticate fails, the pass returns false and notifies "Sync
\* Failed"; it calls neither append_row nor mark_as_synced, and the store and
\* the worksheet are exactly as before the pass.
C26_AuthFailureAborts ==
    [][(IsSync(op') /\ ~op'.accepted
            /\ \E i \in DOMAIN rows : rows[i].synced_to_sheets = 0) =>
        /\ ret' = FALSE
        /\ \E j \in DOMAIN events' : events'[j].title = "Sync Failed"
        /\ "authenticate" \in CallNames(op'.calls)
        /\ CallNames(op'.calls) \cap {"append_row", "mark_as_synced"} = {}
        /\ UNCHANGED store_vars
        /\ UNCHANGED remote]_vars

\* the credentials are refused while two rows wait to be synced
C26_Witness ==
    /\ IsSync(op)
    /\ ~op.accepted
    /\ Len(op.batch) = 2
    /\ ret = FALSE
    /\ \A i \in DOMAIN rows : rows[i].synced_to_sheets = 0
    /\ ~sheet

\* the calls of a pass that gets through the first n of the listed records
HandledCalls(tasks, n) ==
    [k \in 1..(2 * n) |->
        IF k % 2 = 1
        THEN [call |-> "append_row", id |-> tasks[(k + 1) \div 2].id, ok |-> TRUE]
        ELSE [call |-> "mark_as_synced", id |-> tasks[k \div 2].id]]

\* C27: a pass that authenticates and meets no failure handles the records
\* in the order get_unsynced_tasks listed them, one at a time: append_row of
\* a record, then mark_as_synced of that record, then the next record.
C27_AppendThenMark ==
    [][(IsSync(op') /\ op'.accepted /\ op'.fail_at = 0) =>
        SelectSeq(op'.calls, IsRecordCall) = HandledCalls(op'.batch, Len(op'.batch))]_vars

\* C28: when the k-th append_row of a pass fails, the k-1 records before it
\* are appended and marked synced, the k-th and every later record stay
\* unsynced, and append_row is not called for the later ones.
C28_AppendFailureStops ==
    [][(IsSync(op') /\ op'.accepted /\ op'.fail_at \in 1..Len(op'.batch)) =>
        LET k == op'.fail_at
            batch == op'.batch
        IN
        /\ \A i \in 1..(k - 1) : SyncedIn(rows', batch[i].id)
        /\ Len(ledger') = Len(ledger) + (k - 1)
        /\ \A i \in k..Len(batch) : ~SyncedIn(rows', batch[i].id)
        /\ \A i \in (k + 1)..Len(batch) :
              \A j \in DOMAIN op'.calls :
                  ~(op'.calls[j].call = "append_row" /\ op'.calls[j].id = batch[i].id)]_vars

\* C29: a pass that fails at the k-th append_row returns a result carrying
\* the number of records synced before the failure, k-1, and the id of the
\* failing record.
C29_PartialReport ==
    [][(IsSync(op') /\ op'.accepted /\ op'.fail_at \in 1..Len(op'.batch)) =>
        /\ ret' \notin BOOLEAN
        /\ ret'.synced_count = op'.fail_at - 1
        /\ ret'.failed_id = op'.batch[op'.fail_at].id]_vars

\* C30: a row whose synced flag is 1 when a pass starts is not among the
\* records the pass reads, is not passed to append_row by it, and the
\* worksheet grows by no more rows than were unsynced.
C30_SyncedNotResent ==
    [][IsSync(op') =>
        /\ \A i \in DOMAIN rows :
              rows[i].synced_to_sheets = 1 =>
                /\ \A j \in DOMAIN op'.batch : op'.batch[j].id # rows[i].id
                /\ \A j \in DOMAIN op'.calls :
                      ~(op'.calls[j].call = "append_row"
                            /\ op'.calls[j].id = rows[i].id)
        /\ Len(ledger') - Len(ledger)
                <= Cardinality({i \in DOMAIN rows : rows[i].synced_to_sheets = 0})]_vars

\* a second pass, authenticated, over one synced row and one unsynced row
C30_Witness ==
    /\ IsSync(op)
    /\ op.accepted
    /\ sheet
    /\ Len(rows) = 2
    /\ rows[1].synced_to_sheets = 1
    /\ Len(op.batch) = 1
    /\ op.batch[1].id = 2

\* C31: delivery is at least once: a pass whose authenticate and every
\* append_row succeed, over a database no other writer holds, appends each
\* record it read and leaves it synced; no record it attempts is skipped or
\* dropped.
C31_AtLeastOnce ==
    [][(IsSync(op') /\ op'.accepted /\ op'.fail_at = 0 /\ ~WriteBlocked(0)) =>
        \A i \in DOMAIN op'.batch :
            /\ \E j \in DOMAIN op'.calls :
                  op'.calls[j] = [call |-> "append_row", id |-> op'.batch[i].id,
                                  ok |-> TRUE]
            /\ SyncedIn(rows', op'.batch[i].id)]_vars

\* the ids of the records a pass read
BatchIds(c) == {c.batch[k].id : k \in DOMAIN c.batch}

\* the steps of a pass after its read
PassSteps == {"sync_auth", "sync_record", "crash"}

\* C33: a session added while a pass runs is not lost: the running pass
\* changes no row outside the batch it read, so the new row stays unsynced,
\* and the next read of get_unsynced_tasks lists every unsynced row.
C33_AddedDuringPass ==
    [][/\ op'.name \in PassSteps =>
            \A j \in DOMAIN rows :
                rows[j].id \notin BatchIds(sync_call[op'.proc]) =>
                    /\ j \in DOMAIN rows'
                    /\ rows'[j] = rows[j]
       /\ op'.name = "sync_read" =>
            /\ rows' = rows
            /\ \A j \in DOMAIN rows :
                  rows[j].synced_to_sheets = 0 =>
                      rows[j].id \in BatchIds(sync_call'[op'.proc])]_vars

\* the pass of the second instance read one record; the first instance has
\* committed a second record since, and a pass of its own now lists both
C33_Witness ==
    /\ sync_call[2].pc = "loop"
    /\ BatchIds(sync_call[2]) = {1}
    /\ Len(rows) = 2
    /\ rows[2].synced_to_sheets = 0
    /\ op = [name |-> "sync_read", proc |-> 1]
    /\ BatchIds(sync_call[1]) = {1, 2}

\* the successful append_row calls for record id in the passes at hand
AppendsOf(id) ==
    {<<p, j>> \in Procs \X (1..(2 * MaxRows + 2)) :
        /\ j \in DOMAIN sync_call[p].calls
        /\ sync_call[p].calls[j] = [call |-> "append_row", id |-> id, ok |-> TRUE]}

\* C40: without a crash and with every append and mark succeeding, each
\* record a finished pass read is appended exactly once, also when the
\* passes of two instances interleave.
C40_ExactlyOnce ==
    \A p \in Procs :
        (/\ sync_call[p].pc = "done"
         /\ sync_call[p].faults = 0
         /\ \A q \in Procs : sync_call[q].result # "crashed") =>
            \A id \in BatchIds(sync_call[p]) : Cardinality(AppendsOf(id)) = 1

====
